---- MODULE Spec2Model ----
(***************************************************************************)
(* SFLizer: POS frequency tables, KWIC concordance, word forms and the SFL *)
(* process classification (src/SFLizer_1_04.py, src/streamlit_app.py).     *)
(*                                                                         *)
(* Text is modelled as a sequence of one-character strings so that         *)
(* str.lower(), len() and " ".join() are computed rather than assumed.     *)
(* Python lists are TLA+ sequences; a Python index i is position i+1.      *)
(***************************************************************************)
EXTENDS Integers, Sequences, FiniteSets, TLC

\* ---------------------------------------------------------------- bounds
MaxDocLen == 3
MaxWindow == 2
MaxRows == 2
MaxMinLen == 3

\* ------------------------------------------------------ program constants
DefaultMaxRows == 50
DefaultMinLen == 2
TopN == 30
KwicWindowMin == 2
KwicWindowMax == 6

\* -------------------------------------------------------- text primitives
UpperChars == <<"A","B","C","D","E","F","G","H","I","J","K","L","M",
                "N","O","P","Q","R","S","T","U","V","W","X","Y","Z">>
LowerChars == <<"a","b","c","d","e","f","g","h","i","j","k","l","m",
                "n","o","p","q","r","s","t","u","v","w","x","y","z">>

\* str.lower() on one character: upper-case ASCII letters map to their
\* lower-case letter, every other character is kept.
LowerTable ==
    [c \in {UpperChars[k] : k \in 1..26} |->
        LowerChars[CHOOSE k \in 1..26 : UpperChars[k] = c]]

LowerChar(c) == IF c \in DOMAIN LowerTable THEN LowerTable[c] ELSE c

\* str.lower()
Lower(s) == [k \in 1..Len(s) |-> LowerChar(s[k])]

\* " ".join(parts)
RECURSIVE Join(_)
Join(parts) ==
    IF parts = <<>> THEN <<>>
    ELSE IF Len(parts) = 1 THEN parts[1]
    ELSE parts[1] \o <<" ">> \o Join(Tail(parts))

Min(a, b) == IF a <= b THEN a ELSE b
Max(a, b) == IF a >= b THEN a ELSE b

\* Python slice bound: negative bounds count from the end, then clip to 0..n.
SliceBound(b, n) == IF b < 0 THEN Max(b + n, 0) ELSE Min(b, n)

\* Python s[a:b] (a, b are Python 0-based bounds).
PySlice(s, a, b) ==
    LET lo == SliceBound(a, Len(s))
        hi == SliceBound(b, Len(s))
    IN  [k \in 1..Max(hi - lo, 0) |-> s[lo + k]]

\* The Python indices s[a:b] reads.
PySliceIndices(s, a, b) ==
    LET lo == SliceBound(a, Len(s))
        hi == SliceBound(b, Len(s))
    IN  {k \in 0..(Len(s) - 1) : lo <= k /\ k < hi}

\* df.head(n)
head(s, n) == PySlice(s, 0, n)

\* ------------------------------------------------------------ sfl_map
SflEntries ==
    {
      <<<<"d","o">>, "Material">>, <<<<"m","a","k","e">>, "Material">>, <<<<"b","u","i","l","d">>, "Material">>, <<<<"c","r","e","a","t","e">>, "Material">>, <<<<"u","s","e">>, "Material">>,
      <<<<"s","u","p","p","o","r","t">>, "Material">>, <<<<"d","e","v","e","l","o","p">>, "Material">>, <<<<"i","n","c","r","e","a","s","e">>, "Material">>, <<<<"r","e","d","u","c","e">>, "Material">>, <<<<"r","e","a","c","h">>, "Material">>,
      <<<<"g","r","o","w">>, "Material">>, <<<<"p","r","o","v","i","d","e">>, "Material">>, <<<<"h","e","l","p">>, "Material">>, <<<<"d","e","l","i","v","e","r">>, "Material">>, <<<<"i","m","p","l","e","m","e","n","t">>, "Material">>,
      <<<<"m","a","n","a","g","e">>, "Material">>, <<<<"i","m","p","r","o","v","e">>, "Material">>, <<<<"e","n","h","a","n","c","e">>, "Material">>, <<<<"c","o","n","s","t","r","u","c","t">>, "Material">>, <<<<"i","n","v","e","s","t">>, "Material">>,
      <<<<"k","n","o","w">>, "Mental">>, <<<<"s","e","e">>, "Mental">>, <<<<"t","h","i","n","k">>, "Mental">>, <<<<"e","x","p","e","c","t">>, "Mental">>, <<<<"b","e","l","i","e","v","e">>, "Mental">>, <<<<"f","e","e","l">>, "Mental">>,
      <<<<"u","n","d","e","r","s","t","a","n","d">>, "Mental">>, <<<<"a","s","s","u","m","e">>, "Mental">>, <<<<"c","o","n","s","i","d","e","r">>, "Mental">>, <<<<"p","e","r","c","e","i","v","e">>, "Mental">>, <<<<"r","e","a","l","i","z","e">>, "Mental">>,
      <<<<"b","e">>, "Relational">>, <<<<"h","a","v","e">>, "Relational">>, <<<<"i","n","c","l","u","d","e">>, "Relational">>, <<<<"r","e","m","a","i","n">>, "Relational">>,
      <<<<"c","o","n","s","i","s","t">>, "Relational">>, <<<<"r","e","p","r","e","s","e","n","t">>, "Relational">>, <<<<"m","e","a","n">>, "Relational">>, <<<<"e","q","u","a","l">>, "Relational">>,
      <<<<"s","a","y">>, "Verbal">>, <<<<"r","e","p","o","r","t">>, "Verbal">>, <<<<"s","u","g","g","e","s","t">>, "Verbal">>, <<<<"c","l","a","i","m">>, "Verbal">>, <<<<"e","x","p","l","a","i","n">>, "Verbal">>,
      <<<<"m","e","n","t","i","o","n">>, "Verbal">>, <<<<"h","i","g","h","l","i","g","h","t">>, "Verbal">>, <<<<"s","t","a","t","e">>, "Verbal">>, <<<<"a","s","s","e","r","t">>, "Verbal">>, <<<<"c","o","m","m","u","n","i","c","a","t","e">>, "Verbal">>,
      <<<<"w","a","t","c","h">>, "Behavioral">>, <<<<"l","i","s","t","e","n">>, "Behavioral">>, <<<<"s","m","i","l","e">>, "Behavioral">>, <<<<"c","r","y">>, "Behavioral">>, <<<<"b","r","e","a","t","h","e">>, "Behavioral">>,
      <<<<"s","t","a","r","e">>, "Behavioral">>, <<<<"l","o","o","k">>, "Behavioral">>, <<<<"l","a","u","g","h">>, "Behavioral">>, <<<<"o","b","s","e","r","v","e">>, "Behavioral">>, <<<<"s","h","r","u","g">>, "Behavioral">>,
      <<<<"e","x","i","s","t">>, "Existential">>, <<<<"a","r","i","s","e">>, "Existential">>, <<<<"a","p","p","e","a","r">>, "Existential">>, <<<<"e","m","e","r","g","e">>, "Existential">>,
      <<<<"o","c","c","u","r">>, "Existential">>, <<<<"h","a","p","p","e","n">>, "Existential">>, <<<<"p","r","e","v","a","i","l">>, "Existential">>
    }

SflMapInit ==
    [w \in {e[1] : e \in SflEntries} |->
        (CHOOSE e \in SflEntries : e[1] = w)[2]]

Categories ==
    {"Material", "Mental", "Relational", "Verbal", "Behavioral", "Existential"}

\* menu -> POS tag of the main script
pos_map == [Verb |-> "VERB", Noun |-> "NOUN", Adjective |-> "ADJ", Adverb |-> "ADV"]
Menus == DOMAIN pos_map

\* ------------------------------------------------------- annotated tokens
\* A spaCy token as the program reads it: t.text, t.lemma_, t.pos_,
\* t.is_alpha, t.is_stop.
Tok(text, lemma, pos, alpha, stop) ==
    [text |-> text, lemma |-> lemma, pos |-> pos, is_alpha |-> alpha, is_stop |-> stop]

\* Token types the annotator produces in the bounded documents.
Lexicon ==
    { Tok(<<"K","n","o","w","s">>, <<"K","n","o","w">>, "VERB", TRUE,  FALSE),
      Tok(<<"k","n","o","w","s">>, <<"k","n","o","w">>, "VERB", TRUE,  FALSE),
      Tok(<<"r","u","n","s">>,     <<"r","u","n">>,     "VERB", TRUE,  FALSE),
      Tok(<<"m","a","k","e","s">>, <<"m","a","k","e">>, "VERB", TRUE,  FALSE),
      Tok(<<"m","a","d","e">>,     <<"m","a","k","e">>, "VERB", TRUE,  TRUE),
      Tok(<<"m","a","k","3","s">>, <<"m","a","k","e">>, "VERB", FALSE, FALSE),
      Tok(<<"i","s">>,             <<"b","e">>,         "AUX",  TRUE,  TRUE) }

Docs == UNION {[1..n -> Lexicon] : n \in 0..MaxDocLen}

\* The document of the specification's KWIC example: The cat runs fast now
ExampleDoc ==
    << Tok(<<"T","h","e">>,     <<"t","h","e">>,     "DET",  TRUE, TRUE),
       Tok(<<"c","a","t">>,     <<"c","a","t">>,     "NOUN", TRUE, FALSE),
       Tok(<<"r","u","n","s">>, <<"r","u","n">>,     "VERB", TRUE, FALSE),
       Tok(<<"f","a","s","t">>, <<"f","a","s","t">>, "ADV",  TRUE, FALSE),
       Tok(<<"n","o","w">>,     <<"n","o","w">>,     "ADV",  TRUE, TRUE) >>

\* Arguments tried for the function-level calls.
PosTags == {"VERB", "AUX", "NOUN"}
LemmaArgs ==
    { <<"k","n","o","w">>, <<"K","N","O","W">>, <<"m","a","k","e">>,
      <<"r","u","n">>, <<"b","e">> }
LowerLemmaArgs == {l \in LemmaArgs : Lower(l) = l}

\* ------------------------------------------------------------- Counter
\* collections.Counter as an insertion-ordered sequence of <<key, count>>.
CounterAdd(ctr, x) ==
    IF \E k \in 1..Len(ctr) : ctr[k][1] = x
    THEN [k \in 1..Len(ctr) |->
            IF ctr[k][1] = x THEN <<x, ctr[k][2] + 1>> ELSE ctr[k]]
    ELSE Append(ctr, <<x, 1>>)

RECURSIVE Counter(_)
Counter(items) ==
    IF items = <<>> THEN <<>>
    ELSE CounterAdd(Counter(SubSeq(items, 1, Len(items) - 1)), items[Len(items)])

\* Faulty variant of InsertPos: equal counts are placed before the earlier ones.
InsertPosStrict(sorted, e) == Cardinality({k \in 1..Len(sorted) : sorted[k][2] > e[2]})

\* Position at which sorted(..., key=count, reverse=True) places element e
\* among the already placed ones: after every element whose count is >= its
\* own (the sort is stable).
InsertPos(sorted, e) == Cardinality({k \in 1..Len(sorted) : sorted[k][2] >= e[2]})

InsertDesc(sorted, e) ==
    LET p == InsertPos(sorted, e)
    IN  SubSeq(sorted, 1, p) \o <<e>> \o SubSeq(sorted, p + 1, Len(sorted))

\* Counter.most_common()
RECURSIVE most_common(_)
most_common(ctr) ==
    IF ctr = <<>> THEN <<>>
    ELSE InsertDesc(most_common(SubSeq(ctr, 1, Len(ctr) - 1)), ctr[Len(ctr)])

\* ------------------------------------------------------------- kwic
\* Faulty variant of KwicMatch: the token lemma is compared without lower-casing.
KwicMatchCaseSensitive(t, lemma, pos_tag) == t.lemma = Lower(lemma) /\ t.pos = pos_tag

KwicMatch(t, lemma, pos_tag) == Lower(t.lemma) = Lower(lemma) /\ t.pos = pos_tag

\* hits: the Python indices of the matching tokens, in document order.
RECURSIVE KwicHits(_, _, _)
KwicHits(tokens, lemma, pos_tag) ==
    IF tokens = <<>> THEN <<>>
    ELSE LET n == Len(tokens)
             prev == KwicHits(SubSeq(tokens, 1, n - 1), lemma, pos_tag)
         IN  IF KwicMatch(tokens[n], lemma, pos_tag) THEN Append(prev, n - 1) ELSE prev

\* Faulty variant of KwicSelect: the row cap is not applied.
KwicSelectNoCap(hits, max_rows) == hits

KwicSelect(hits, max_rows) == PySlice(hits, 0, max_rows)

\* Faulty variant of KwicLeftStart: the start is not clipped at 0.
KwicLeftStartNoClip(i, window) == i - window

KwicLeftStart(i, window) == Max(0, i - window)

\* Faulty variant of KwicRightEnd: the right window is one token short.
KwicRightEndShort(i, window) == i + window

KwicRightEnd(i, window) == i + 1 + window

Texts(toks) == [k \in 1..Len(toks) |-> toks[k].text]

KwicRow(tokens, i, window) ==
    [Left    |-> Join(Texts(PySlice(tokens, KwicLeftStart(i, window), i))),
     Keyword |-> tokens[i + 1].text,
     Right   |-> Join(Texts(PySlice(tokens, i + 1, KwicRightEnd(i, window))))]

kwic(doc_, lemma, pos_tag_, window_, max_rows_) ==
    LET sel == KwicSelect(KwicHits(doc_, lemma, pos_tag_), max_rows_)
    IN  [k \in 1..Len(sel) |-> KwicRow(doc_, sel[k], window_)]

\* For each row of one kwic call, the hit (Python index) it is built for and
\* the Python indices of the tokens read to build it.
KwicReads(doc_, lemma, pos_tag_, window_, max_rows_) ==
    LET sel == KwicSelect(KwicHits(doc_, lemma, pos_tag_), max_rows_)
    IN  [k \in 1..Len(sel) |->
            [hit |-> sel[k],
             idx |-> PySliceIndices(doc_, KwicLeftStart(sel[k], window_), sel[k])
                     \cup {sel[k]}
                     \cup PySliceIndices(doc_, sel[k] + 1, KwicRightEnd(sel[k], window_))]]

\* ------------------------------------------------------------- analyze_pos
\* Faulty variant of AnalyzePosKeeps: non-alphabetic tokens are kept.
AnalyzePosKeepsNoAlpha(t, pos_tag_, remove_stop_) ==
    t.pos = pos_tag_ /\ ~(remove_stop_ /\ t.is_stop)

AnalyzePosKeeps(t, pos_tag_, remove_stop_) ==
    t.pos = pos_tag_ /\ t.is_alpha /\ ~(remove_stop_ /\ t.is_stop)

\* Faulty variant of AnalyzePosItem: the lemma is not lower-cased.
AnalyzePosItemAsIs(t) == t.lemma

AnalyzePosItem(t) == Lower(t.lemma)

RECURSIVE AnalyzePosItems(_, _, _, _)
AnalyzePosItems(tokens, pos_tag_, min_len_, remove_stop_) ==
    IF tokens = <<>> THEN <<>>
    ELSE LET n == Len(tokens)
             prev == AnalyzePosItems(SubSeq(tokens, 1, n - 1), pos_tag_, min_len_, remove_stop_)
             t == tokens[n]
         IN  IF AnalyzePosKeeps(t, pos_tag_, remove_stop_)
                    /\ Len(AnalyzePosItem(t)) >= min_len_
             THEN Append(prev, AnalyzePosItem(t))
             ELSE prev

ToFrame(pairs) == [k \in 1..Len(pairs) |-> [Lemma |-> pairs[k][1], Frequency |-> pairs[k][2]]]

analyze_pos(doc_, pos_tag_, min_len_, remove_stop_) ==
    ToFrame(most_common(Counter(AnalyzePosItems(doc_, pos_tag_, min_len_, remove_stop_))))

\* ------------------------------------------------------------- lemma_forms
\* Faulty variant of LemmaFormsKeeps: non-alphabetic tokens are skipped.
LemmaFormsKeepsAlphaOnly(t, lemmas_, pos_tag_) ==
    t.pos = pos_tag_ /\ t.is_alpha /\ Lower(t.lemma) \in lemmas_

LemmaFormsKeeps(t, lemmas_, pos_tag_) == t.pos = pos_tag_ /\ Lower(t.lemma) \in lemmas_

\* forms[lm][form] += 1 on a defaultdict(Counter): insertion-ordered
\* sequence of <<lemma, Counter>>.
FormsAdd(forms, lm, form) ==
    IF \E k \in 1..Len(forms) : forms[k][1] = lm
    THEN [k \in 1..Len(forms) |->
            IF forms[k][1] = lm THEN <<lm, CounterAdd(forms[k][2], form)>> ELSE forms[k]]
    ELSE Append(forms, <<lm, <<<<form, 1>>>> >>)

RECURSIVE LemmaFormsDict(_, _, _)
LemmaFormsDict(tokens, lemmas_, pos_tag_) ==
    IF tokens = <<>> THEN <<>>
    ELSE LET n == Len(tokens)
             prev == LemmaFormsDict(SubSeq(tokens, 1, n - 1), lemmas_, pos_tag_)
             t == tokens[n]
         IN  IF LemmaFormsKeeps(t, lemmas_, pos_tag_)
             THEN FormsAdd(prev, Lower(t.lemma), t.text)
             ELSE prev

RECURSIVE LemmaFormsRows(_)
LemmaFormsRows(forms) ==
    IF forms = <<>> THEN <<>>
    ELSE LET lm == forms[1][1]
             ctr == forms[1][2]
         IN  [k \in 1..Len(ctr) |-> [Lemma |-> lm, Form |-> ctr[k][1], Frequency |-> ctr[k][2]]]
             \o LemmaFormsRows(Tail(forms))

lemma_forms(doc_, lemmas_, pos_tag_) == LemmaFormsRows(LemmaFormsDict(doc_, lemmas_, pos_tag_))

\* ------------------------------------------------------------- analyze_text
AnalyzeTextKeeps(t) == t.pos \in {"VERB", "AUX"} /\ t.is_alpha

\* Faulty variant of AnalyzeTextLemma: the lemma is not lower-cased.
AnalyzeTextLemmaAsIs(t) == t.lemma

AnalyzeTextLemma(t) == Lower(t.lemma)

RECURSIVE AnalyzeTextVerbs(_)
AnalyzeTextVerbs(tokens) ==
    IF tokens = <<>> THEN <<>>
    ELSE LET n == Len(tokens)
             prev == AnalyzeTextVerbs(SubSeq(tokens, 1, n - 1))
             t == tokens[n]
         IN  IF AnalyzeTextKeeps(t)
             THEN Append(prev, <<Lower(t.text), AnalyzeTextLemma(t)>>)
             ELSE prev

\* sfl_map.get(lemma, "Material")
SflGet(map, lemma) == IF lemma \in DOMAIN map THEN map[lemma] ELSE "Material"

AnalyzeTextRows(doc_, map) ==
    LET verbs == AnalyzeTextVerbs(doc_)
        lemma_freq == Counter([k \in 1..Len(verbs) |-> verbs[k][2]])
    IN  [k \in 1..Len(lemma_freq) |->
            [Verb |-> lemma_freq[k][1], Frequency |-> lemma_freq[k][2],
             Process |-> SflGet(map, lemma_freq[k][1])]]

\* DataFrame.sort_values(by="Frequency", ascending=False) with the default
\* sort kind, which leaves the relative order of equal keys unspecified: every
\* arrangement of the rows with non-increasing Frequency.
SortValuesDesc(rows) ==
    LET n == Len(rows)
        Perms == {p \in [1..n -> 1..n] : \A a, b \in 1..n : a # b => p[a] # p[b]}
    IN  { [k \in 1..n |-> rows[p[k]]] : p \in
            {q \in Perms : \A k \in 1..(n - 1) :
                rows[q[k]].Frequency >= rows[q[k + 1]].Frequency} }

\* df["SFL Process"].value_counts(): category -> number of rows.
ValueCounts(rows) ==
    [c \in {rows[k].Process : k \in 1..Len(rows)} |->
        Cardinality({k \in 1..Len(rows) : rows[k].Process = c})]

\* ------------------------------------------------------------------ state
VARIABLES
    doc,          \* the annotated document, nlp(text)
    sfl_map,      \* streamlit_app.py module-level classification table
    pc,           \* which operation produced the current results
    pos_tag, min_len, remove_stop,   \* arguments of analyze_pos
    df,           \* table returned by analyze_pos
    lemmas,       \* lemmas argument of lemma_forms
    df_forms,     \* table returned by lemma_forms
    kw, window, max_rows,            \* arguments of kwic
    df_kwic,      \* table returned by kwic
    reads,        \* per kwic row, the token indices read to build it
    df_text,      \* table returned by analyze_text
    dist          \* the process distribution that is charted

vars == <<doc, sfl_map, pc, pos_tag, min_len, remove_stop, df, lemmas, df_forms,
          kw, window, max_rows, df_kwic, reads, df_text, dist>>

\* "(select)", the placeholder option of the KWIC select box
NoSelection == <<"(","s","e","l","e","c","t",")">>

Blank ==
    /\ sfl_map = SflMapInit
    /\ pc = "ready"
    /\ pos_tag = ""
    /\ min_len = 0
    /\ remove_stop = FALSE
    /\ df = <<>>
    /\ lemmas = {}
    /\ df_forms = <<>>
    /\ kw = <<>>
    /\ window = 0
    /\ max_rows = 0
    /\ df_kwic = <<>>
    /\ reads = <<>>
    /\ df_text = <<>>
    /\ dist = <<>>

Init == doc \in Docs /\ Blank

InitExample == doc = ExampleDoc /\ Blank

\* Positions of the "KWIC window" slider that the bounded documents tell apart.
KwicWindows == KwicWindowMin..Min(Max(MaxWindow, KwicWindowMin), KwicWindowMax)

\* A call analyze_pos(doc, pos_tag, label, min_len, remove_stop).
AnalyzePos(p, ml, rs) ==
    /\ pc = "ready"
    /\ pc' = "analyze_pos"
    /\ pos_tag' = p
    /\ min_len' = ml
    /\ remove_stop' = rs
    /\ df' = analyze_pos(doc, p, ml, rs)
    /\ UNCHANGED <<doc, sfl_map, lemmas, df_forms, kw, window, max_rows, df_kwic,
                   reads, df_text, dist>>

\* A call kwic(doc, lemma, pos_tag, window, max_rows).
Kwic(lemma, p, w, mr) ==
    /\ pc = "ready"
    /\ pc' = "kwic"
    /\ kw' = lemma
    /\ pos_tag' = p
    /\ window' = w
    /\ max_rows' = mr
    /\ df_kwic' = kwic(doc, lemma, p, w, mr)
    /\ reads' = KwicReads(doc, lemma, p, w, mr)
    /\ UNCHANGED <<doc, sfl_map, min_len, remove_stop, df, lemmas, df_forms,
                   df_text, dist>>

\* A call lemma_forms(doc, lemmas, pos_tag).
LemmaForms(ls, p) ==
    /\ pc = "ready"
    /\ pc' = "lemma_forms"
    /\ lemmas' = ls
    /\ pos_tag' = p
    /\ df_forms' = lemma_forms(doc, ls, p)
    /\ UNCHANGED <<doc, sfl_map, min_len, remove_stop, df, kw, window, max_rows,
                   df_kwic, reads, df_text, dist>>

\* One run of the SFLizer_1_04.py script on an uploaded document with menu
\* Verb/Noun/Adjective/Adverb: frequency table, then word forms of the chosen
\* lemmas, then the concordance of the selected lemma.
Main(menu) ==
    LET p == pos_map[menu]
        table == analyze_pos(doc, p, DefaultMinLen, TRUE)
        shown == head(table, TopN)
        options == {shown[k].Lemma : k \in 1..Len(shown)}
    IN  /\ pc = "ready"
        /\ pc' = "main"
        /\ pos_tag' = p
        /\ min_len' = DefaultMinLen
        /\ remove_stop' = TRUE
        /\ df' = table
        /\ IF table = <<>>
           THEN UNCHANGED <<lemmas, df_forms, kw, window, max_rows, df_kwic, reads>>
           ELSE \E chosen \in SUBSET options, sel \in options \cup {NoSelection},
                   kwic_window \in KwicWindows :
                /\ lemmas' = chosen
                /\ df_forms' = IF chosen # {} THEN lemma_forms(doc, chosen, p) ELSE <<>>
                /\ kw' = sel
                /\ window' = kwic_window
                /\ IF sel # NoSelection
                   THEN /\ max_rows' = DefaultMaxRows
                        /\ df_kwic' = kwic(doc, sel, p, kwic_window, DefaultMaxRows)
                        /\ reads' = KwicReads(doc, sel, p, kwic_window, DefaultMaxRows)
                   ELSE UNCHANGED <<max_rows, df_kwic, reads>>
        /\ UNCHANGED <<doc, sfl_map, df_text, dist>>

\* One run of the streamlit_app.py Analysis page: analyze_text, then the
\* process-distribution chart.  sort_values(by="Frequency") on the frame built
\* from an empty row list raises KeyError (the frame has no columns).
Analysis ==
    LET rows == AnalyzeTextRows(doc, sfl_map)
    IN  /\ pc = "ready"
        /\ IF rows = <<>>
           THEN /\ pc' = "error"
                /\ UNCHANGED <<df_text, dist>>
           ELSE /\ pc' = "analysis"
                /\ df_text' \in SortValuesDesc(rows)
                /\ dist' = ValueCounts(df_text')
        /\ UNCHANGED <<doc, sfl_map, pos_tag, min_len, remove_stop, df, lemmas,
                       df_forms, kw, window, max_rows, df_kwic, reads>>

Next ==
    \/ \E p \in PosTags, ml \in 0..MaxMinLen, rs \in BOOLEAN : AnalyzePos(p, ml, rs)
    \/ \E lemma \in LemmaArgs, p \in PosTags, w \in 0..MaxWindow, mr \in 0..MaxRows :
          Kwic(lemma, p, w, mr)
    \/ \E ls \in SUBSET LowerLemmaArgs, p \in PosTags : LemmaForms(ls, p)
    \/ \E menu \in Menus : Main(menu)
    \/ Analysis

Spec == Init /\ [][Next]_vars

SpecExample == InitExample /\ [][Next]_vars

TypeOK ==
    /\ pc \in {"ready", "analyze_pos", "kwic", "lemma_forms", "main", "analysis", "error"}
    /\ sfl_map = SflMapInit

\* ============================================================== properties
RECURSIVE SumFrequency(_)
SumFrequency(rows) ==
    IF rows = <<>> THEN 0 ELSE rows[1].Frequency + SumFrequency(Tail(rows))

\* Token positions (1..Len(doc)) that qualify for the frequency table.
Qualifying(p, ml, rs) ==
    {i \in 1..Len(doc) :
        /\ doc[i].pos = p
        /\ doc[i].is_alpha
        /\ (rs => ~doc[i].is_stop)
        /\ Len(Lower(doc[i].lemma)) >= ml}

\* Token positions whose lower-cased lemma and POS match the kwic target.
Matching(lemma, p) ==
    {i \in 1..Len(doc) : Lower(doc[i].lemma) = Lower(lemma) /\ doc[i].pos = p}

VerbTokens == {i \in 1..Len(doc) : doc[i].pos \in {"VERB", "AUX"} /\ doc[i].is_alpha}

AnalyzePosDone == pc \in {"analyze_pos", "main"}

KwicDone == pc = "kwic" \/ (pc = "main" /\ df # <<>> /\ kw # NoSelection)

LemmaFormsDone == pc = "lemma_forms" \/ (pc = "main" /\ lemmas # {})

\* C1: the Frequency column of the analyze_pos table sums to the number of
\* qualifying tokens (POS equal to the target, alphabetic, not a stop word when
\* remove_stop is set, lower-cased lemma of length >= min_len); the Frequency
\* column of the analyze_text table sums to the number of alphabetic VERB/AUX
\* tokens.
C1_FrequencySum ==
    /\ AnalyzePosDone =>
          SumFrequency(df) = Cardinality(Qualifying(pos_tag, min_len, remove_stop))
    /\ pc = "analysis" => SumFrequency(df_text) = Cardinality(VerbTokens)

C1_Witness ==
    /\ pc = "analyze_pos"
    /\ remove_stop /\ min_len = 3
    /\ Len(doc) = 3
    /\ SumFrequency(df) = 1
    /\ \E i \in 1..3 : ~doc[i].is_alpha /\ doc[i].pos = pos_tag
    /\ \E i \in 1..3 : doc[i].is_stop /\ doc[i].is_alpha /\ doc[i].pos = pos_tag

\* C2: the analyze_pos table is ordered by non-increasing count, and lemmas
\* with equal count appear in the order of their first qualifying token.
FirstQualifying(lemma) ==
    CHOOSE i \in Qualifying(pos_tag, min_len, remove_stop) :
        /\ Lower(doc[i].lemma) = lemma
        /\ \A j \in Qualifying(pos_tag, min_len, remove_stop) :
              Lower(doc[j].lemma) = lemma => i <= j

C2_Ordering ==
    AnalyzePosDone =>
        \A a, b \in 1..Len(df) :
            a < b =>
                /\ df[a].Frequency >= df[b].Frequency
                /\ \A l \in {df[a].Lemma, df[b].Lemma} :
                      \E i \in Qualifying(pos_tag, min_len, remove_stop) :
                          Lower(doc[i].lemma) = l
                /\ df[a].Frequency = df[b].Frequency =>
                      FirstQualifying(df[a].Lemma) < FirstQualifying(df[b].Lemma)

C2_Witness ==
    /\ pc = "analyze_pos"
    /\ Len(df) = 3
    /\ df[1].Frequency = df[2].Frequency
    /\ df[2].Frequency = df[3].Frequency

\* C3: kwic returns exactly min(max_rows, number of matching tokens) rows, and
\* row k is built for the k-th matching token in document order.
KthMatch(lemma, p, k) ==
    CHOOSE i \in Matching(lemma, p) :
        Cardinality({j \in Matching(lemma, p) : j < i}) = k - 1

C3_RowCap ==
    KwicDone =>
        /\ Len(df_kwic) = Min(max_rows, Cardinality(Matching(kw, pos_tag)))
        /\ Len(df_kwic) <= max_rows
        /\ Len(df_kwic) <= Cardinality(Matching(kw, pos_tag))
        /\ Len(reads) = Len(df_kwic)
        /\ \A k \in 1..Len(df_kwic) :
              /\ reads[k].hit + 1 = KthMatch(kw, pos_tag, k)
              /\ df_kwic[k].Keyword = doc[KthMatch(kw, pos_tag, k)].text

C3_Witness ==
    /\ pc = "kwic"
    /\ max_rows = 2
    /\ Cardinality(Matching(kw, pos_tag)) = 3
    /\ Len(df_kwic) = 2

\* C4: the row built for the match at Python index i of an n-token document
\* with window w has as left context the min(w, i) tokens at indices
\* i-min(w,i) .. i-1, as right context the min(w, n-1-i) tokens at indices
\* i+1 .. i+min(w, n-1-i), as keyword the surface form of token i, and reads
\* no index outside 0..n-1.
C4_Windows ==
    KwicDone =>
        \A k \in 1..Len(df_kwic) :
            LET i == reads[k].hit
                n == Len(doc)
                nl == Min(window, i)
                nr == Min(window, n - 1 - i)
            IN  /\ i \in 0..(n - 1)
                /\ df_kwic[k].Left = Join([j \in 1..nl |-> doc[i - nl + j].text])
                /\ df_kwic[k].Keyword = doc[i + 1].text
                /\ df_kwic[k].Right = Join([j \in 1..nr |-> doc[i + 1 + j].text])
                /\ reads[k].idx = (i - nl)..(i + nr)
                /\ reads[k].idx \subseteq 0..(n - 1)

C4_Witness ==
    /\ pc = "kwic"
    /\ window = 2
    /\ Len(doc) = 3
    /\ \E k \in 1..Len(df_kwic) :
          /\ reads[k].hit = 1
          /\ reads[k].idx = 0..2
          /\ Len(df_kwic[k].Left) > 0
          /\ Len(df_kwic[k].Right) > 0

\* C5 (as stated): kwic on lemma "run", window 2, over The cat runs fast now
\* yields one row with left "cat", keyword "runs", right "fast now".
RunExample ==
    /\ doc = ExampleDoc
    /\ KwicDone
    /\ Lower(kw) = <<"r","u","n">>
    /\ pos_tag = "VERB"
    /\ window = 2
    /\ max_rows >= 1

C5_ExampleAsStated ==
    RunExample =>
        df_kwic = << [Left    |-> <<"c","a","t">>,
                      Keyword |-> <<"r","u","n","s">>,
                      Right   |-> <<"f","a","s","t"," ","n","o","w">>] >>

\* C5 (amended): the same call yields one row with left "The cat", keyword
\* "runs", right "fast now".
C5_Example ==
    RunExample =>
        df_kwic = << [Left    |-> <<"T","h","e"," ","c","a","t">>,
                      Keyword |-> <<"r","u","n","s">>,
                      Right   |-> <<"f","a","s","t"," ","n","o","w">>] >>

C5_Witness == RunExample /\ pc = "kwic" /\ Len(df_kwic) = 1

\* C6: every row of the analyze_text table carries one of the six categories,
\* namely the sfl_map entry of the lower-cased lemma or Material when there is
\* none; tokens whose lemmas differ only in case get the same category; "know"
\* is Mental and "xyz123" is Material; sfl_map is never modified.
ProcessOf(lemma) ==
    IF Lower(lemma) \in DOMAIN SflMapInit THEN SflMapInit[Lower(lemma)] ELSE "Material"

C6_Classification ==
    /\ sfl_map = SflMapInit
    /\ SflGet(sfl_map, <<"k","n","o","w">>) = "Mental"
    /\ SflGet(sfl_map, <<"x","y","z","1","2","3">>) = "Material"
    /\ pc = "analysis" =>
          /\ \A k \in 1..Len(df_text) :
                /\ df_text[k].Process \in Categories
                /\ df_text[k].Process = ProcessOf(df_text[k].Verb)
          /\ \A i \in VerbTokens :
                \E k \in 1..Len(df_text) :
                    /\ df_text[k].Verb = Lower(doc[i].lemma)
                    /\ df_text[k].Process = ProcessOf(doc[i].lemma)
          /\ \A i, j \in VerbTokens :
                Lower(doc[i].lemma) = Lower(doc[j].lemma) =>
                    \A k \in 1..Len(df_text) :
                        df_text[k].Verb \in {Lower(doc[i].lemma), Lower(doc[j].lemma)} =>
                            df_text[k].Process = ProcessOf(doc[j].lemma)

C6_Witness ==
    /\ pc = "analysis"
    /\ \E i, j \in VerbTokens :
          /\ doc[i].lemma # doc[j].lemma
          /\ Lower(doc[i].lemma) = Lower(doc[j].lemma)
    /\ \E k \in 1..Len(df_text) :
          df_text[k].Verb = <<"k","n","o","w">> /\ df_text[k].Process = "Mental"
    /\ \E k \in 1..Len(df_text) :
          df_text[k].Verb \notin DOMAIN sfl_map /\ df_text[k].Process = "Material"

\* C7: on a document without qualifying tokens every analysis operation ends
\* with an empty table or chart, and no operation ends in an error.
C7_EmptyDegradesSilently ==
    /\ AnalyzePosDone /\ Qualifying(pos_tag, min_len, remove_stop) = {} => df = <<>>
    /\ KwicDone /\ Matching(kw, pos_tag) = {} => df_kwic = <<>>
    /\ LemmaFormsDone /\ (\A l \in lemmas : Matching(l, pos_tag) = {}) => df_forms = <<>>
    /\ VerbTokens = {} => pc # "error"
    /\ pc = "analysis" /\ VerbTokens = {} => df_text = <<>> /\ dist = <<>>

\* C8: every key of the analyze_pos table is lower-case and occurs in one row;
\* a lemma has a row exactly when some qualifying token has it as lower-cased
\* lemma, and the row's count is the number of those tokens (never 0).
C8_Rows ==
    AnalyzePosDone =>
        LET Q == Qualifying(pos_tag, min_len, remove_stop)
        IN  /\ \A k \in 1..Len(df) :
                  /\ Lower(df[k].Lemma) = df[k].Lemma
                  /\ df[k].Frequency >= 1
                  /\ df[k].Frequency =
                        Cardinality({i \in Q : Lower(doc[i].lemma) = df[k].Lemma})
            /\ \A a, b \in 1..Len(df) : a # b => df[a].Lemma # df[b].Lemma
            /\ \A i \in Q : \E k \in 1..Len(df) : df[k].Lemma = Lower(doc[i].lemma)

C8_Witness ==
    /\ pc = "analyze_pos"
    /\ Len(df) = 1
    /\ df[1].Frequency = 2
    /\ \E i, j \in Qualifying(pos_tag, min_len, remove_stop) :
          /\ doc[i].lemma # doc[j].lemma
          /\ Lower(doc[i].lemma) = df[1].Lemma
          /\ Lower(doc[j].lemma) = df[1].Lemma
    /\ Cardinality(Qualifying(pos_tag, min_len, remove_stop)) < Len(doc)

\* C9: a lemma of the frequency table has at least as many kwic matches (same
\* document and POS) as its count; its concordance is non-empty for every
\* max_rows >= 1; once max_rows reaches the number of matches the concordance
\* has at least count rows, and more than count rows when a matching token is
\* left out of the table for being non-alphabetic or a stop word (the main
\* script always builds the table with remove_stop set).
C9_KwicCoversTable ==
    AnalyzePosDone =>
        \A r \in 1..Len(df) :
            LET lemma == df[r].Lemma
                M == Matching(lemma, pos_tag)
                Extra == \E i \in M : ~doc[i].is_alpha \/ (remove_stop /\ doc[i].is_stop)
            IN  /\ pc = "main" => remove_stop
                /\ Cardinality(M) >= df[r].Frequency
                /\ \A mr \in 1..(MaxRows + 1) :
                      LET rows == kwic(doc, lemma, pos_tag, KwicWindowMin, mr)
                      IN  /\ Len(rows) >= 1
                          /\ mr >= Cardinality(M) =>
                                /\ Len(rows) >= df[r].Frequency
                                /\ Extra => Len(rows) > df[r].Frequency
                /\ pc = "main" /\ r <= TopN /\ kw = lemma =>
                      /\ Len(df_kwic) >= 1
                      /\ max_rows >= Cardinality(M)
                      /\ Len(df_kwic) >= df[r].Frequency
                      /\ Extra => Len(df_kwic) > df[r].Frequency

C9_Witness ==
    /\ pc = "main"
    /\ kw # NoSelection
    /\ \E r \in 1..Len(df) :
          /\ df[r].Lemma = kw
          /\ df[r].Frequency = 1
          /\ Len(df_kwic) = 3
    /\ \E i \in Matching(kw, pos_tag) : ~doc[i].is_alpha
    /\ \E i \in Matching(kw, pos_tag) : doc[i].is_stop

\* C10: lemma_forms returns at most one row per (lemma, form) pair and only
\* rows of the given lemmas; per given lemma the Frequency column sums to the
\* number of tokens with that POS and lower-cased lemma whatever their
\* alphabetic and stop-word flags, which is the uncapped kwic match count and
\* at least the lemma's count in the analyze_pos table.
RECURSIVE SumFormsOf(_, _)
SumFormsOf(rows, lemma) ==
    IF rows = <<>> THEN 0
    ELSE (IF rows[1].Lemma = lemma THEN rows[1].Frequency ELSE 0)
         + SumFormsOf(Tail(rows), lemma)

C10_LemmaForms ==
    LemmaFormsDone =>
        /\ \A a, b \in 1..Len(df_forms) :
              a # b => <<df_forms[a].Lemma, df_forms[a].Form>>
                         # <<df_forms[b].Lemma, df_forms[b].Form>>
        /\ \A a \in 1..Len(df_forms) :
              df_forms[a].Lemma \in lemmas /\ df_forms[a].Frequency >= 1
        /\ \A l \in lemmas :
              /\ SumFormsOf(df_forms, l) =
                    Cardinality({i \in 1..Len(doc) :
                        doc[i].pos = pos_tag /\ Lower(doc[i].lemma) = l})
              /\ SumFormsOf(df_forms, l) = Len(kwic(doc, l, pos_tag, 0, Len(doc)))
              /\ \A ml \in 0..MaxMinLen, rs \in BOOLEAN :
                    LET table == analyze_pos(doc, pos_tag, ml, rs)
                    IN  \A r \in 1..Len(table) :
                            table[r].Lemma = l => SumFormsOf(df_forms, l) >= table[r].Frequency
              /\ pc = "main" =>
                    \A r \in 1..Len(df) :
                        df[r].Lemma = l => SumFormsOf(df_forms, l) >= df[r].Frequency

C10_Witness ==
    /\ pc = "lemma_forms"
    /\ Len(df_forms) = 3
    /\ \A a \in 1..3 : df_forms[a].Lemma = <<"m","a","k","e">>
    /\ \E i \in 1..Len(doc) : ~doc[i].is_alpha
    /\ \E i \in 1..Len(doc) : doc[i].is_stop
====
